---- MODULE Spec2Model ----
(***************************************************************************)
(* CPU affinity manager (bas_set_cpu_affinity): the startup sweep, the     *)
(* reconciliation pass and the polling loop of cli.manage_affinity, over   *)
(* an operating-system process table that the program reads and mutates    *)
(* through psutil.                                                         *)
(***************************************************************************)
EXTENDS Integers, Sequences, FiniteSets, TLC

VARIABLES
    cpuCount,             \* psutil.cpu_count()
    mainCores,            \* main_cores: list of core indices
    workerCores,          \* worker_cores: list of core indices
    mainNames,            \* main_names: list of process names
    workerNames,          \* worker_names: list of process names
    procs,                \* OS process table: pid -> [name, aff]
    pc,                   \* position of the program
    caller,               \* "cli" (manage_affinity) or "direct" (a direct call of a core function)
    iter,                 \* pids psutil.process_iter has still to yield in the running pass
    mainFound,            \* main_processes_found of the running set_affinities call
    workerFound,          \* worker_processes_found of the running set_affinities call
    consecutiveFailures,  \* consecutive_failures of the monitoring loop
    exitStatus,           \* exit status of the process, -1 while it runs
    log,                  \* cpu_affinity calls of the running pass, oldest first; emptied when it returns
    sweeps,               \* calls of move_processes_from_main_cores so far
    polls,                \* calls of set_affinities so far
    sleeps,               \* calls of time.sleep so far
    envUsed,              \* affinity changes made by other programs so far
    faults,               \* calls of psutil that have raised so far
    limits,               \* how many polls, outside changes and raising calls the run may have
    input,                \* argument of a pure function called on its own
    output,               \* what that call returned
    guard,                \* the named mutex of check_single_instance, the message box and the call's result
    warnings,             \* "No target processes found for 5 consecutive checks" lines logged so far
    sweepWrites           \* cpu_affinity writes the sweep made, oldest first; history kept up to the first sleep

vars == <<cpuCount, mainCores, workerCores, mainNames, workerNames, procs, pc, caller,
          iter, mainFound, workerFound, consecutiveFailures, exitStatus, log,
          sweeps, polls, sleeps, envUsed, faults, limits, input, output, guard,
          warnings, sweepWrites>>

(***************************************************************************)
(* Bounds of the model.  The command runs on machines of CliCpuCounts      *)
(* cores; the functions of core.py are also called on their own, as the    *)
(* unit tests call them, on a machine of UnitCpuCounts cores.              *)
(***************************************************************************)
CliCpuCounts == {1, 2}
UnitCpuCounts == {3}
MaxPolls == 2
MaxEnv == 1
MaxFaults == 1
MaxArgLen == 3
MaxParseLen == 5
MaxCoreListLen == 3
MaxCpuCount == 64
MaxLoopPolls == 10
MaxLoopEnv == 2

(***************************************************************************)
(* Process names.  A name is a sequence of characters; str.lower() maps    *)
(* each character to its lower-case form.                                  *)
(***************************************************************************)
LowerChar(c) ==
    CASE c = "M" -> "m"
      [] c = "W" -> "w"
      [] c = "B" -> "b"
      [] OTHER -> c

Lower(s) == [i \in 1..Len(s) |-> LowerChar(s[i])]

Range(s) == {s[i] : i \in 1..Len(s)}

\* Matching by str.endswith in place of equality.
NameMatches_endswith(name, names) ==
    \E i \in 1..Len(names) :
        /\ Len(names[i]) <= Len(name)
        /\ SubSeq(Lower(name), Len(name) - Len(names[i]) + 1, Len(name)) = Lower(names[i])

\* any(proc_name.lower() == n.lower() for n in names)
NameMatches(name, names) == \E i \in 1..Len(names) : Lower(name) = Lower(names[i])

\* The role set_affinities gives a process: the main list is tried first.
Classify(name, mnames, wnames) ==
    IF NameMatches(name, mnames) THEN "Main"
    ELSE IF NameMatches(name, wnames) THEN "Worker"
    ELSE "Unclassified"

(***************************************************************************)
(* Lists of core indices.                                                  *)
(***************************************************************************)
\* Insert x into the ascending list s, after the elements that are <= x.
RECURSIVE InsertSorted(_, _)
InsertSorted(x, s) ==
    IF s = <<>> THEN <<x>>
    ELSE IF x < Head(s) THEN <<x>> \o s
    ELSE <<Head(s)>> \o InsertSorted(x, Tail(s))

\* sorted(s): the elements of s, duplicates kept, in ascending order.
RECURSIVE Sorted(_)
Sorted(s) == IF s = <<>> THEN <<>> ELSE InsertSorted(Head(s), Sorted(Tail(s)))

\* list(S) for a set S of integers: its elements, each once, in some order.
RECURSIVE ListOfSet(_)
ListOfSet(S) ==
    IF S = {} THEN <<>>
    ELSE LET x == CHOOSE y \in S : TRUE IN <<x>> \o ListOfSet(S \ {x})

\* The orders in which the elements of the set S can be listed.
RECURSIVE Orderings(_)
Orderings(S) ==
    IF S = {} THEN {<<>>}
    ELSE UNION {{<<x>> \o rest : rest \in Orderings(S \ {x})} : x \in S}

IsAscending(s) == \A i \in 1..(Len(s) - 1) : s[i] < s[i + 1]

(***************************************************************************)
(* The core argument of the command line: a string over these characters.  *)
(***************************************************************************)
ArgChars == {"0", "1", "a", "-"}

IsDigit(c) == c \in {"0", "1", "2"}

DigitValue(c) == IF c = "0" THEN 0 ELSE IF c = "1" THEN 1 ELSE 2

\* str.split("-"): the pieces between the hyphens, empty pieces included.
RECURSIVE Split(_, _)
Split(str, piece) ==
    IF str = <<>> THEN <<piece>>
    ELSE IF Head(str) = "-" THEN <<piece>> \o Split(Tail(str), <<>>)
    ELSE Split(Tail(str), Append(piece, Head(str)))

\* int(token) succeeds on a non-empty string of decimal digits.
IsInt(token) == token # <<>> /\ \A i \in 1..Len(token) : IsDigit(token[i])

RECURSIVE IntValue(_, _)
IntValue(token, acc) ==
    IF token = <<>> THEN acc ELSE IntValue(Tail(token), 10 * acc + DigitValue(Head(token)))

Ok(v) == [ok |-> TRUE, val |-> v]
Failure == [ok |-> FALSE, val |-> <<>>]

\* parse_core_string with a list in place of the set: nothing removes the
\* repeated cores.
parse_core_string_list(core_str) ==
    LET pieces == Split(core_str, <<>>) IN
    IF \A i \in 1..Len(pieces) : IsInt(pieces[i])
    THEN Ok(Sorted([i \in 1..Len(pieces) |-> IntValue(pieces[i], 0)]))
    ELSE Failure

\* parse_core_string: ValueError unless every piece is an integer.
parse_core_string(core_str) ==
    LET pieces == Split(core_str, <<>>) IN
    IF \A i \in 1..Len(pieces) : IsInt(pieces[i])
    THEN Ok(Sorted(ListOfSet({IntValue(pieces[i], 0) : i \in 1..Len(pieces)})))
    ELSE Failure

\* validate_cores with > in place of >=.
validate_cores_off_by_one(cores, cpu_count) ==
    IF \E i \in 1..Len(cores) : cores[i] > cpu_count \/ cores[i] < 0
    THEN Failure
    ELSE Ok(cores)

\* validate_cores: ValueError when a core is outside 0..cpu_count-1.
validate_cores(cores, cpu_count) ==
    IF \E i \in 1..Len(cores) : cores[i] >= cpu_count \/ cores[i] < 0
    THEN Failure
    ELSE Ok(cores)

\* list(range(n))
RangeList(n) == [i \in 1..n |-> i - 1]

Min(a, b) == IF a < b THEN a ELSE b
Max(a, b) == IF a > b THEN a ELSE b

\* calculate_default_main_cores without the limit of 4 cores.
calculate_default_main_cores_uncapped(cpu_count) ==
    IF cpu_count <= 4 THEN <<0>>
    ELSE IF cpu_count <= 8 THEN <<0, 1>>
    ELSE RangeList(Max(2, cpu_count \div 4))

\* calculate_default_main_cores with two cores on the small machines too.
calculate_default_main_cores_pair(cpu_count) ==
    IF cpu_count <= 8 THEN <<0, 1>>
    ELSE RangeList(Min(4, Max(2, cpu_count \div 4)))

calculate_default_main_cores(cpu_count) ==
    IF cpu_count <= 4 THEN <<0>>
    ELSE IF cpu_count <= 8 THEN <<0, 1>>
    ELSE RangeList(Min(4, Max(2, cpu_count \div 4)))

\* The command-line argument: absent, or a string.
NoArg == [given |-> FALSE, str |-> <<>>]
Arg(str) == [given |-> TRUE, str |-> str]

\* validate_cores_callback without the call of validate_cores.
validate_cores_callback_unvalidated(value, cpu_count) ==
    IF ~value.given THEN Ok(calculate_default_main_cores(cpu_count))
    ELSE parse_core_string(value.str)

\* validate_cores_callback: the main cores, or click.BadParameter.
validate_cores_callback(value, cpu_count) ==
    IF ~value.given THEN Ok(calculate_default_main_cores(cpu_count))
    ELSE LET parsed == parse_core_string(value.str) IN
         IF parsed.ok THEN validate_cores(parsed.val, cpu_count) ELSE Failure

\* worker_cores = [c for c in range(cpu_count) if c not in main_cores]
RECURSIVE Without(_, _)
Without(s, S) ==
    IF s = <<>> THEN <<>>
    ELSE IF Head(s) \in S THEN Without(Tail(s), S)
    ELSE <<Head(s)>> \o Without(Tail(s), S)

ComplementCores(cpu_count, main_cores) == Without(RangeList(cpu_count), Range(main_cores))

(***************************************************************************)
(* The process table and the calls made on it.                             *)
(***************************************************************************)
SystemPidLimit == 4

\* The pids of the processes of a run: one system process and one ordinary
\* process, or two ordinary processes.
PidSets == {{4, 5}, {5, 6}}

\* Names of running processes, and the configured name lists.  "M" and "w"
\* differ from a configured name in case only, "xm" ends with a configured
\* name, and "b" is on both lists.
ProcNames == {<<"M">>, <<"x", "m">>, <<"w">>, <<"b">>}
MainNameList == <<<<"m">>, <<"B">>>>
WorkerNameList == <<<<"W">>, <<"b">>>>

Cores(cpu_count) == 0..(cpu_count - 1)
Affinities(cpu_count) == (SUBSET Cores(cpu_count)) \ {{}}

\* What a cpu_affinity call can raise.  set_affinities and
\* move_processes_from_main_cores catch the first three and go on to the next
\* process; anything else leaves the function.
Absorbed_without_OSError == {"NoSuchProcess", "AccessDenied"}

\* Handlers that let AccessDenied through.
Absorbed_without_AccessDenied == {"NoSuchProcess", "OSError"}

Absorbed == {"NoSuchProcess", "AccessDenied", "OSError"}
Raised == {"NoSuchProcess", "AccessDenied", "OSError", "Exception"}
Outcomes == {"ok"} \cup Raised

\* What the calls on a process of affinity aff can do: <<g, cur, s>>, the
\* outcome g of the read, the list cur it returns, and the outcome s of the
\* write that may follow.  A read that raises returns nothing and no write
\* follows it.
CallOutcomes(aff) ==
    {<<"ok", cur, s>> : cur \in Orderings(aff), s \in Outcomes}
        \cup {<<g, <<>>, "ok">> : g \in Raised}

\* Entries of the log: proc.cpu_affinity() returning the cores cur in some
\* order (the entry lists them ascending) or raising res, and
\* proc.cpu_affinity(arg).
GetCall(p, cur, res) ==
    [op |-> "get", pid |-> p, cur |-> Sorted(cur), arg |-> <<>>, res |-> res]
SetCall(p, arg, res) == [op |-> "set", pid |-> p, cur |-> <<>>, arg |-> arg, res |-> res]

\* The pids of the table in the order psutil.process_iter yields them.
Enumerate(table) == Sorted(ListOfSet(DOMAIN table))

WithAffinity(table, p, cores) == [table EXCEPT ![p].aff = cores]

(***************************************************************************)
(* handle_main_process / handle_worker_process on process p: cur is what   *)
(* the read returns when it succeeds (g = "ok"), s the outcome of the      *)
(* write, if one is made.  The result: the new affinity of p, the calls    *)
(* made, and the exception that leaves the function ("none" if none).      *)
(***************************************************************************)
\* handle_main_process comparing the list as read, without sorting it.
handle_main_process_unsorted(p, aff, target_cores, g, cur, s) ==
    IF g # "ok" THEN [aff |-> aff, calls |-> <<GetCall(p, <<>>, g)>>, exc |-> g]
    ELSE IF cur # target_cores THEN
        [aff |-> IF s = "ok" THEN Range(target_cores) ELSE aff,
         calls |-> <<GetCall(p, cur, "ok"), SetCall(p, target_cores, s)>>,
         exc |-> IF s = "ok" THEN "none" ELSE s]
    ELSE [aff |-> aff, calls |-> <<GetCall(p, cur, "ok")>>, exc |-> "none"]

handle_main_process(p, aff, target_cores, g, cur, s) ==
    IF g # "ok" THEN [aff |-> aff, calls |-> <<GetCall(p, <<>>, g)>>, exc |-> g]
    ELSE IF Sorted(cur) # target_cores THEN
        [aff |-> IF s = "ok" THEN Range(target_cores) ELSE aff,
         calls |-> <<GetCall(p, cur, "ok"), SetCall(p, target_cores, s)>>,
         exc |-> IF s = "ok" THEN "none" ELSE s]
    ELSE [aff |-> aff, calls |-> <<GetCall(p, cur, "ok")>>, exc |-> "none"]

\* handle_worker_process without the comparison: it always writes.
handle_worker_process_always(p, aff, target_cores, g, cur, s) ==
    IF g # "ok" THEN [aff |-> aff, calls |-> <<GetCall(p, <<>>, g)>>, exc |-> g]
    ELSE [aff |-> IF s = "ok" THEN Range(target_cores) ELSE aff,
          calls |-> <<GetCall(p, cur, "ok"), SetCall(p, target_cores, s)>>,
          exc |-> IF s = "ok" THEN "none" ELSE s]

\* handle_worker_process with the comparison inverted.
handle_worker_process_inverted(p, aff, target_cores, g, cur, s) ==
    IF g # "ok" THEN [aff |-> aff, calls |-> <<GetCall(p, <<>>, g)>>, exc |-> g]
    ELSE IF Sorted(cur) = target_cores THEN
        [aff |-> IF s = "ok" THEN Range(target_cores) ELSE aff,
         calls |-> <<GetCall(p, cur, "ok"), SetCall(p, target_cores, s)>>,
         exc |-> IF s = "ok" THEN "none" ELSE s]
    ELSE [aff |-> aff, calls |-> <<GetCall(p, cur, "ok")>>, exc |-> "none"]

handle_worker_process(p, aff, target_cores, g, cur, s) ==
    IF g # "ok" THEN [aff |-> aff, calls |-> <<GetCall(p, <<>>, g)>>, exc |-> g]
    ELSE IF Sorted(cur) # target_cores THEN
        [aff |-> IF s = "ok" THEN Range(target_cores) ELSE aff,
         calls |-> <<GetCall(p, cur, "ok"), SetCall(p, target_cores, s)>>,
         exc |-> IF s = "ok" THEN "none" ELSE s]
    ELSE [aff |-> aff, calls |-> <<GetCall(p, cur, "ok")>>, exc |-> "none"]

\* set_affinities with every process that is not a main process handled as
\* a worker process.
set_affinities_body_else_worker(p, name, aff, g, cur, s) ==
    IF Classify(name, mainNames, workerNames) = "Main"
    THEN LET r == handle_main_process(p, aff, mainCores, g, cur, s) IN
         [aff |-> r.aff, calls |-> r.calls, exc |-> r.exc,
          main |-> (r.exc = "none"), worker |-> FALSE]
    ELSE LET r == handle_worker_process(p, aff, workerCores, g, cur, s) IN
         [aff |-> r.aff, calls |-> r.calls, exc |-> r.exc,
          main |-> FALSE, worker |-> (r.exc = "none")]

\* The loop body that hands the worker cores to the handler of a main process.
set_affinities_body_worker_target(p, name, aff, g, cur, s) ==
    IF Classify(name, mainNames, workerNames) = "Main"
    THEN LET r == handle_main_process(p, aff, workerCores, g, cur, s) IN
         [aff |-> r.aff, calls |-> r.calls, exc |-> r.exc,
          main |-> (r.exc = "none"), worker |-> FALSE]
    ELSE IF Classify(name, mainNames, workerNames) = "Worker"
    THEN LET r == handle_worker_process(p, aff, workerCores, g, cur, s) IN
         [aff |-> r.aff, calls |-> r.calls, exc |-> r.exc,
          main |-> FALSE, worker |-> (r.exc = "none")]
    ELSE [aff |-> aff, calls |-> <<>>, exc |-> "none", main |-> FALSE, worker |-> FALSE]

\* The body of the loop of set_affinities for process p.
set_affinities_body(p, name, aff, g, cur, s) ==
    IF Classify(name, mainNames, workerNames) = "Main"
    THEN LET r == handle_main_process(p, aff, mainCores, g, cur, s) IN
         [aff |-> r.aff, calls |-> r.calls, exc |-> r.exc,
          main |-> (r.exc = "none"), worker |-> FALSE]
    ELSE IF Classify(name, mainNames, workerNames) = "Worker"
    THEN LET r == handle_worker_process(p, aff, workerCores, g, cur, s) IN
         [aff |-> r.aff, calls |-> r.calls, exc |-> r.exc,
          main |-> FALSE, worker |-> (r.exc = "none")]
    ELSE [aff |-> aff, calls |-> <<>>, exc |-> "none", main |-> FALSE, worker |-> FALSE]

\* The sweep that moves a process only when it sits on all the main cores.
move_processes_body_exact(p, name, aff, g, cur, s) ==
    IF p <= SystemPidLimit THEN [aff |-> aff, calls |-> <<>>, exc |-> "none"]
    ELSE IF NameMatches(name, mainNames) THEN [aff |-> aff, calls |-> <<>>, exc |-> "none"]
    ELSE IF g # "ok" THEN [aff |-> aff, calls |-> <<GetCall(p, <<>>, g)>>, exc |-> g]
    ELSE IF Sorted(cur) = mainCores THEN
        [aff |-> IF s = "ok" THEN Range(workerCores) ELSE aff,
         calls |-> <<GetCall(p, cur, "ok"), SetCall(p, workerCores, s)>>,
         exc |-> IF s = "ok" THEN "none" ELSE s]
    ELSE [aff |-> aff, calls |-> <<GetCall(p, cur, "ok")>>, exc |-> "none"]

\* The sweep with < in place of <= in the test of the pid.
move_processes_body_pid_lt(p, name, aff, g, cur, s) ==
    IF p < SystemPidLimit THEN [aff |-> aff, calls |-> <<>>, exc |-> "none"]
    ELSE IF NameMatches(name, mainNames) THEN [aff |-> aff, calls |-> <<>>, exc |-> "none"]
    ELSE IF g # "ok" THEN [aff |-> aff, calls |-> <<GetCall(p, <<>>, g)>>, exc |-> g]
    ELSE IF \A i \in 1..Len(cur) : cur[i] \in Range(mainCores) THEN
        [aff |-> IF s = "ok" THEN Range(workerCores) ELSE aff,
         calls |-> <<GetCall(p, cur, "ok"), SetCall(p, workerCores, s)>>,
         exc |-> IF s = "ok" THEN "none" ELSE s]
    ELSE [aff |-> aff, calls |-> <<GetCall(p, cur, "ok")>>, exc |-> "none"]

\* The sweep that counts a process as moved without the write.
move_processes_body_no_write(p, name, aff, g, cur, s) ==
    IF p <= SystemPidLimit THEN [aff |-> aff, calls |-> <<>>, exc |-> "none"]
    ELSE IF NameMatches(name, mainNames) THEN [aff |-> aff, calls |-> <<>>, exc |-> "none"]
    ELSE IF g # "ok" THEN [aff |-> aff, calls |-> <<GetCall(p, <<>>, g)>>, exc |-> g]
    ELSE IF \A i \in 1..Len(cur) : cur[i] \in Range(mainCores) THEN
        [aff |-> aff, calls |-> <<GetCall(p, cur, "ok")>>, exc |-> "none"]
    ELSE [aff |-> aff, calls |-> <<GetCall(p, cur, "ok")>>, exc |-> "none"]

\* The sweep with any() in place of all() in the test of the cores read.
move_processes_body_any(p, name, aff, g, cur, s) ==
    IF p <= SystemPidLimit THEN [aff |-> aff, calls |-> <<>>, exc |-> "none"]
    ELSE IF NameMatches(name, mainNames) THEN [aff |-> aff, calls |-> <<>>, exc |-> "none"]
    ELSE IF g # "ok" THEN [aff |-> aff, calls |-> <<GetCall(p, <<>>, g)>>, exc |-> g]
    ELSE IF \E i \in 1..Len(cur) : cur[i] \in Range(mainCores) THEN
        [aff |-> IF s = "ok" THEN Range(workerCores) ELSE aff,
         calls |-> <<GetCall(p, cur, "ok"), SetCall(p, workerCores, s)>>,
         exc |-> IF s = "ok" THEN "none" ELSE s]
    ELSE [aff |-> aff, calls |-> <<GetCall(p, cur, "ok")>>, exc |-> "none"]

\* The body of the loop of move_processes_from_main_cores for process p.
move_processes_body(p, name, aff, g, cur, s) ==
    IF p <= SystemPidLimit THEN [aff |-> aff, calls |-> <<>>, exc |-> "none"]
    ELSE IF NameMatches(name, mainNames) THEN [aff |-> aff, calls |-> <<>>, exc |-> "none"]
    ELSE IF g # "ok" THEN [aff |-> aff, calls |-> <<GetCall(p, <<>>, g)>>, exc |-> g]
    ELSE IF \A i \in 1..Len(cur) : cur[i] \in Range(mainCores) THEN
        [aff |-> IF s = "ok" THEN Range(workerCores) ELSE aff,
         calls |-> <<GetCall(p, cur, "ok"), SetCall(p, workerCores, s)>>,
         exc |-> IF s = "ok" THEN "none" ELSE s]
    ELSE [aff |-> aff, calls |-> <<GetCall(p, cur, "ok")>>, exc |-> "none"]

(***************************************************************************)
(* Initial states.                                                         *)
(***************************************************************************)
Strings(n) == UNION {[1..k -> ArgChars] : k \in 0..n}

CliArgs == {NoArg} \cup {Arg(str) : str \in Strings(MaxArgLen)}

Tables(cpu_count, pidSets) ==
    UNION {[pids -> [name : ProcNames, aff : Affinities(cpu_count)]] : pids \in pidSets}

\* A loop that begins again at the call of the sweep.
LoopTop_resweep == "sweep_call"

\* The named mutex is free or another instance holds it; nothing has called
\* check_single_instance yet.
LockStates == {"free", "other"}
NoGuard(lock) ==
    [lock |-> lock, called |-> FALSE, outcome |-> "unset", box |-> "none", handle |-> "unset"]

\* The first statement of the body of the monitoring loop.
LoopTop == "poll_call"

\* Where control goes when the running function ends: back to its caller
\* in manage_affinity, or to the code that called it directly.
AfterReturn(next) == IF caller = "cli" THEN next ELSE "returned"
\* A loop whose handlers go on to the next poll without the sleep.
AfterRaise_no_sleep(inLoop) ==
    IF caller # "cli" THEN "raised" ELSE IF inLoop THEN "poll_call" ELSE "exited"

\* A loop whose handlers let the exception of a poll through.
AfterRaise_uncaught(inLoop) == IF caller # "cli" THEN "raised" ELSE "exited"

AfterRaise(inLoop) ==
    IF caller # "cli" THEN "raised" ELSE IF inLoop THEN "sleep" ELSE "exited"

Counters ==
    /\ iter = <<>>
    /\ mainFound = FALSE
    /\ workerFound = FALSE
    /\ consecutiveFailures = 0
    /\ exitStatus = -1
    /\ log = <<>>
    /\ sweeps = 0
    /\ polls = 0
    /\ sleeps = 0
    /\ envUsed = 0
    /\ faults = 0
    /\ warnings = 0
    /\ sweepWrites = <<>>

\* The command line has been read: click has called validate_cores_callback
\* and calls manage_affinity, unless the callback has rejected the argument.
Init ==
    /\ cpuCount \in CliCpuCounts
    /\ caller = "cli"
    /\ limits = [polls |-> MaxPolls, env |-> MaxEnv, faults |-> MaxFaults]
    /\ \E r \in {validate_cores_callback(a, cpuCount) : a \in CliArgs} :
          /\ mainCores = r.val
          /\ pc = IF r.ok THEN "manage_affinity" ELSE "usage_error"
    /\ workerCores = <<>>
    /\ mainNames = MainNameList
    /\ workerNames = WorkerNameList
    /\ procs \in Tables(cpuCount, PidSets)
    /\ Counters
    /\ input = <<>>
    /\ output = <<>>
    /\ guard \in {NoGuard(l) : l \in LockStates}

\* What a run of manage_affinity or of a function of core.py other than
\* check_single_instance never changes.
config == <<cpuCount, mainCores, mainNames, workerNames, caller, limits, guard>>

\* The calls among these that raised.
Failed(calls) == {i \in 1..Len(calls) : calls[i].res # "ok"}

CanRaise == faults < limits.faults

(***************************************************************************)
(* click and manage_affinity up to the monitoring loop.                    *)
(***************************************************************************)
\* click reports the rejected argument and exits.
UsageError ==
    /\ pc = "usage_error"
    /\ pc' = "exited"
    /\ exitStatus' = 2
    /\ UNCHANGED <<config, warnings, sweepWrites, input, output, workerCores, procs, iter, mainFound, workerFound,
                   consecutiveFailures, log, sweeps, polls, sleeps, envUsed, faults>>

\* manage_affinity without the test of worker_cores.
Configure_no_abort ==
    /\ pc = "manage_affinity"
    /\ workerCores' = ComplementCores(cpuCount, mainCores)
    /\ pc' = "sweep_call"
    /\ UNCHANGED <<config, warnings, sweepWrites, input, output, procs, iter, mainFound, workerFound, consecutiveFailures,
                   exitStatus, log, sweeps, polls, sleeps, envUsed, faults>>

Configure ==
    /\ pc = "manage_affinity"
    /\ workerCores' = ComplementCores(cpuCount, mainCores)
    /\ IF workerCores' = <<>>
       THEN pc' = "exited" /\ exitStatus' = 1
       ELSE pc' = "sweep_call" /\ UNCHANGED exitStatus
    /\ UNCHANGED <<config, warnings, sweepWrites, input, output, procs, iter, mainFound, workerFound, consecutiveFailures,
                   log, sweeps, polls, sleeps, envUsed, faults>>

(***************************************************************************)
(* move_processes_from_main_cores.                                         *)
(***************************************************************************)
\* The sweep without the test of worker_cores.
SweepEnter_unguarded ==
    /\ pc = "sweep_call"
    /\ sweeps' = sweeps + 1
    /\ log' = <<>>
    /\ pc' = "sweep"
    /\ iter' = Enumerate(procs)
    /\ UNCHANGED <<config, warnings, sweepWrites, input, output, workerCores, procs, mainFound, workerFound,
                   consecutiveFailures, exitStatus, polls, sleeps, envUsed, faults>>

SweepEnter ==
    /\ pc = "sweep_call"
    /\ sweeps' = sweeps + 1
    /\ log' = <<>>
    /\ IF workerCores = <<>>
       THEN pc' = AfterReturn(LoopTop) /\ UNCHANGED iter
       ELSE pc' = "sweep" /\ iter' = Enumerate(procs)
    /\ UNCHANGED <<config, warnings, sweepWrites, input, output, workerCores, procs, mainFound, workerFound,
                   consecutiveFailures, exitStatus, polls, sleeps, envUsed, faults>>

\* psutil.process_iter raises: nothing in the function catches it.
SweepEnumFail ==
    /\ pc = "sweep_call"
    /\ workerCores # <<>>
    /\ CanRaise
    /\ faults' = faults + 1
    /\ sweeps' = sweeps + 1
    /\ log' = <<>>
    /\ pc' = AfterRaise(FALSE)
    /\ exitStatus' = IF caller = "cli" THEN 1 ELSE exitStatus
    /\ UNCHANGED <<config, warnings, sweepWrites, input, output, workerCores, procs, iter, mainFound, workerFound,
                   consecutiveFailures, polls, sleeps, envUsed>>

SweepStep ==
    /\ pc = "sweep"
    /\ iter # <<>>
    /\ LET p == Head(iter) IN
       \E o \in CallOutcomes(procs[p].aff) :
          LET r == move_processes_body(p, procs[p].name, procs[p].aff, o[1], o[2], o[3]) IN
          /\ Failed(r.calls) # {} => CanRaise
          /\ faults' = faults + Cardinality(Failed(r.calls))
          /\ procs' = WithAffinity(procs, p, r.aff)
          /\ IF r.exc \in Absorbed \cup {"none"}
             THEN /\ iter' = Tail(iter)
                  /\ log' = log \o r.calls
                  /\ UNCHANGED <<pc, exitStatus>>
             ELSE /\ iter' = <<>>
                  /\ log' = log \o r.calls
                  /\ pc' = AfterRaise(FALSE)
                  /\ exitStatus' = IF caller = "cli" THEN 1 ELSE exitStatus
    /\ UNCHANGED <<config, warnings, sweepWrites, input, output, workerCores, mainFound, workerFound, consecutiveFailures,
                   sweeps, polls, sleeps, envUsed>>

SweepReturn ==
    /\ pc = "sweep"
    /\ iter = <<>>
    /\ pc' = AfterReturn(LoopTop)
    /\ log' = <<>>
    /\ sweepWrites' = SelectSeq(log, LAMBDA e : e.op = "set")
    /\ UNCHANGED <<config, warnings, input, output, workerCores, procs, iter, mainFound, workerFound,
                   consecutiveFailures, exitStatus, sweeps, polls, sleeps,
                   envUsed, faults>>

(***************************************************************************)
(* The monitoring loop of manage_affinity and set_affinities.              *)
(***************************************************************************)
PollStart ==
    /\ pc = "poll_call"
    /\ polls < limits.polls
    /\ polls' = polls + 1
    /\ iter' = Enumerate(procs)
    /\ mainFound' = FALSE
    /\ workerFound' = FALSE
    /\ log' = <<>>
    /\ pc' = "poll"
    /\ UNCHANGED <<config, warnings, sweepWrites, input, output, workerCores, procs, consecutiveFailures, exitStatus,
                   sweeps, sleeps, envUsed, faults>>

\* psutil.process_iter raises in set_affinities: the handlers of the loop
\* log the error and the loop goes on to time.sleep.
PollEnumFail ==
    /\ pc = "poll_call"
    /\ polls < limits.polls
    /\ CanRaise
    /\ faults' = faults + 1
    /\ polls' = polls + 1
    /\ iter' = <<>>
    /\ mainFound' = FALSE
    /\ workerFound' = FALSE
    /\ log' = <<>>
    /\ pc' = AfterRaise(TRUE)
    /\ UNCHANGED <<config, warnings, sweepWrites, input, output, workerCores, procs, consecutiveFailures, exitStatus,
                   sweeps, sleeps, envUsed>>

PollStep ==
    /\ pc = "poll"
    /\ iter # <<>>
    /\ LET p == Head(iter) IN
       \E o \in CallOutcomes(procs[p].aff) :
          LET r == set_affinities_body(p, procs[p].name, procs[p].aff, o[1], o[2], o[3]) IN
          /\ Failed(r.calls) # {} => CanRaise
          /\ faults' = faults + Cardinality(Failed(r.calls))
          /\ procs' = WithAffinity(procs, p, r.aff)
          /\ mainFound' = (mainFound \/ r.main)
          /\ workerFound' = (workerFound \/ r.worker)
          /\ IF r.exc \in Absorbed \cup {"none"}
             THEN iter' = Tail(iter) /\ log' = log \o r.calls /\ UNCHANGED pc
             ELSE iter' = <<>> /\ log' = log \o r.calls /\ pc' = AfterRaise(TRUE)
    /\ UNCHANGED <<config, warnings, sweepWrites, input, output, workerCores, consecutiveFailures, exitStatus, sweeps,
                   polls, sleeps, envUsed>>

\* set_affinities returns (main_processes_found, worker_processes_found).
PollReturn ==
    /\ pc = "poll"
    /\ iter = <<>>
    /\ pc' = AfterReturn("bookkeep")
    /\ log' = <<>>
    /\ UNCHANGED <<config, warnings, sweepWrites, input, output, workerCores, procs, iter, mainFound, workerFound,
                   consecutiveFailures, exitStatus, sweeps, polls, sleeps,
                   envUsed, faults>>

\* Bookkeeping that warns at 5 and leaves the counter as it is.
Bookkeep_no_reset ==
    /\ pc = "bookkeep"
    /\ consecutiveFailures' =
          IF mainFound \/ workerFound THEN 0 ELSE consecutiveFailures + 1
    /\ warnings' =
          IF ~(mainFound \/ workerFound) /\ consecutiveFailures + 1 >= 5
          THEN warnings + 1
          ELSE warnings
    /\ pc' = "sleep"
    /\ UNCHANGED <<config, sweepWrites, input, output, workerCores, procs, iter, mainFound, workerFound,
                   exitStatus, log, sweeps, polls, sleeps, envUsed, faults>>

\* The loop's bookkeeping of the returned flags.
\* Bookkeeping that warns and resets only above 5.
Bookkeep_above_five ==
    /\ pc = "bookkeep"
    /\ consecutiveFailures' =
          IF mainFound \/ workerFound THEN 0
          ELSE IF consecutiveFailures + 1 > 5 THEN 0
          ELSE consecutiveFailures + 1
    /\ warnings' =
          IF ~(mainFound \/ workerFound) /\ consecutiveFailures + 1 > 5
          THEN warnings + 1
          ELSE warnings
    /\ pc' = "sleep"
    /\ UNCHANGED <<config, sweepWrites, input, output, workerCores, procs, iter, mainFound, workerFound,
                   exitStatus, log, sweeps, polls, sleeps, envUsed, faults>>

\* The bookkeeping of a poll that returned.
Bookkeep ==
    /\ pc = "bookkeep"
    /\ consecutiveFailures' =
          IF mainFound \/ workerFound THEN 0
          ELSE IF consecutiveFailures + 1 >= 5 THEN 0
          ELSE consecutiveFailures + 1
    /\ warnings' =
          IF ~(mainFound \/ workerFound) /\ consecutiveFailures + 1 >= 5
          THEN warnings + 1
          ELSE warnings
    /\ pc' = "sleep"
    /\ UNCHANGED <<config, sweepWrites, input, output, workerCores, procs, iter, mainFound, workerFound,
                   exitStatus, log, sweeps, polls, sleeps, envUsed, faults>>

\* time.sleep(interval) returns.
Sleep ==
    /\ pc = "sleep"
    /\ sleeps' = sleeps + 1
    /\ pc' = LoopTop
    /\ sweepWrites' = <<>>
    /\ UNCHANGED <<config, warnings, input, output, workerCores, procs, iter, mainFound, workerFound,
                   consecutiveFailures, exitStatus, log, sweeps, polls, envUsed,
                   faults>>

\* KeyboardInterrupt.  Inside the try block of the loop the handler breaks
\* out of the loop and the command returns; anywhere else click turns it
\* into an abort.
\* A try block that the call of set_affinities is not part of.
InTry_without_poll == pc \in {"bookkeep"}

InTry == pc \in {"poll_call", "poll", "bookkeep"}

Interrupt ==
    /\ caller = "cli"
    /\ pc \in {"manage_affinity", "sweep_call", "sweep", "poll_call", "poll", "bookkeep", "sleep"}
    /\ exitStatus' = IF InTry THEN 0 ELSE 1
    /\ pc' = "exited"
    /\ log' = <<>>
    /\ UNCHANGED <<config, warnings, sweepWrites, input, output, workerCores, procs, iter, mainFound, workerFound,
                   consecutiveFailures, sweeps, polls, sleeps, envUsed, faults>>

\* Another program changes the affinity of a process.  The program reads
\* the affinity of a process once in a pass, so a change made during a pass
\* acts on it like the same change made before or after that pass: the
\* changes are placed between the passes.
EnvSetAffinity ==
    /\ caller = "cli"
    /\ pc \in {"sweep_call", "poll_call", "sleep"}
    /\ envUsed < limits.env
    /\ envUsed' = envUsed + 1
    /\ \E p \in DOMAIN procs, a \in Affinities(cpuCount) :
          /\ a # procs[p].aff
          /\ procs' = WithAffinity(procs, p, a)
    /\ UNCHANGED <<config, warnings, sweepWrites, input, output, workerCores, pc, iter, mainFound, workerFound,
                   consecutiveFailures, exitStatus, log, sweeps, polls, sleeps, faults>>

Next ==
    \/ UsageError
    \/ Configure
    \/ SweepEnter
    \/ SweepEnumFail
    \/ SweepStep
    \/ SweepReturn
    \/ PollStart
    \/ PollEnumFail
    \/ PollStep
    \/ PollReturn
    \/ Bookkeep
    \/ Sleep
    \/ Interrupt
    \/ EnvSetAffinity

Spec == Init /\ [][Next]_vars

(***************************************************************************)
(* The command over many polls, on a machine of two cores with the         *)
(* default main cores, where one process may start, change its affinity    *)
(* and exit between the passes.                                            *)
(***************************************************************************)
LoopCpuCounts == {2}
LoopPids == {5}

\* A process starts between two passes.
EnvStart ==
    /\ caller = "cli"
    /\ pc \in {"sweep_call", "poll_call", "sleep"}
    /\ envUsed < limits.env
    /\ envUsed' = envUsed + 1
    /\ \E p \in limits.pids \ DOMAIN procs, name \in ProcNames, a \in Affinities(cpuCount) :
          procs' = [q \in DOMAIN procs \cup {p} |->
                       IF q = p THEN [name |-> name, aff |-> a] ELSE procs[q]]
    /\ UNCHANGED <<config, warnings, sweepWrites, input, output, workerCores, pc, iter, mainFound,
                   workerFound, consecutiveFailures, exitStatus, log, sweeps, polls, sleeps,
                   faults>>

\* A process exits between two passes.
EnvExit ==
    /\ caller = "cli"
    /\ pc \in {"sweep_call", "poll_call", "sleep"}
    /\ envUsed < limits.env
    /\ envUsed' = envUsed + 1
    /\ \E p \in DOMAIN procs : procs' = [q \in DOMAIN procs \ {p} |-> procs[q]]
    /\ UNCHANGED <<config, warnings, sweepWrites, input, output, workerCores, pc, iter, mainFound,
                   workerFound, consecutiveFailures, exitStatus, log, sweeps, polls, sleeps,
                   faults>>

InitLoop ==
    /\ cpuCount \in LoopCpuCounts
    /\ caller = "cli"
    /\ limits = [polls |-> MaxLoopPolls, env |-> MaxLoopEnv, faults |-> MaxFaults,
                 pids |-> LoopPids]
    /\ mainCores = validate_cores_callback(NoArg, cpuCount).val
    /\ pc = "manage_affinity"
    /\ workerCores = <<>>
    /\ mainNames = MainNameList
    /\ workerNames = WorkerNameList
    /\ procs \in Tables(cpuCount, {{}, LoopPids})
    /\ Counters
    /\ input = <<>>
    /\ output = <<>>
    /\ guard = NoGuard("free")

NextLoop ==
    \/ Configure
    \/ SweepEnter
    \/ SweepEnumFail
    \/ SweepStep
    \/ SweepReturn
    \/ PollStart
    \/ PollEnumFail
    \/ PollStep
    \/ PollReturn
    \/ Bookkeep
    \/ Sleep
    \/ Interrupt
    \/ EnvSetAffinity
    \/ EnvStart
    \/ EnvExit

SpecLoop == InitLoop /\ [][NextLoop]_vars

(***************************************************************************)
(* The functions of core.py called on their own.                           *)
(***************************************************************************)
\* The ascending lists of distinct cores of the machine.
CoreLists(cpu_count) == {Sorted(ListOfSet(S)) : S \in SUBSET Cores(cpu_count)}

InitDirect ==
    /\ cpuCount \in UnitCpuCounts
    /\ caller = "direct"
    /\ limits = [polls |-> 1, env |-> 0, faults |-> MaxFaults]
    /\ Counters

\* set_affinities(main_names, worker_names, main_cores, worker_cores)
InitPass ==
    /\ InitDirect
    /\ guard = NoGuard("free")
    /\ mainNames = MainNameList
    /\ workerNames = WorkerNameList
    /\ input = <<>>
    /\ output = <<>>
    /\ procs \in Tables(cpuCount, {{5, 6}})
    /\ pc = "poll_call"
    /\ mainCores \in CoreLists(cpuCount) \ {<<>>}
    /\ workerCores = ComplementCores(cpuCount, mainCores)
    /\ workerCores # <<>>

NextPass == PollStart \/ PollEnumFail \/ PollStep \/ PollReturn

SpecPass == InitPass /\ [][NextPass]_vars

\* move_processes_from_main_cores(main_cores, worker_cores, main_names)
InitSweep ==
    /\ InitDirect
    /\ guard = NoGuard("free")
    /\ mainNames = MainNameList
    /\ workerNames = WorkerNameList
    /\ input = <<>>
    /\ output = <<>>
    /\ procs \in Tables(cpuCount, PidSets)
    /\ pc = "sweep_call"
    /\ mainCores \in CoreLists(cpuCount) \ {<<>>}
    /\ workerCores \in {ComplementCores(cpuCount, mainCores), <<>>}

NextSweep == SweepEnter \/ SweepEnumFail \/ SweepStep \/ SweepReturn

SpecSweep == InitSweep /\ [][NextSweep]_vars

(***************************************************************************)
(* set_affinities called twice in a row by the same caller, nothing else   *)
(* touching the process table in between.                                  *)
(***************************************************************************)
InitTwice ==
    /\ cpuCount \in UnitCpuCounts
    /\ caller = "direct"
    /\ limits = [polls |-> 2, env |-> 0, faults |-> MaxFaults]
    /\ Counters
    /\ mainNames = MainNameList
    /\ workerNames = WorkerNameList
    /\ input = <<>>
    /\ output = <<>>
    /\ guard = NoGuard("free")
    /\ procs \in Tables(cpuCount, {{5, 6}})
    /\ pc = "poll_call"
    /\ mainCores \in CoreLists(cpuCount) \ {<<>>}
    /\ workerCores = ComplementCores(cpuCount, mainCores)
    /\ workerCores # <<>>

\* The caller calls set_affinities again with the same arguments.
CallAgain ==
    /\ pc = "returned"
    /\ polls < limits.polls
    /\ pc' = "poll_call"
    /\ UNCHANGED <<config, warnings, sweepWrites, input, output, workerCores, procs, iter, mainFound, workerFound,
                   consecutiveFailures, exitStatus, log, sweeps, polls, sleeps,
                   envUsed, faults>>

NextTwice == PollStart \/ PollEnumFail \/ PollStep \/ PollReturn \/ CallAgain

SpecTwice == InitTwice /\ [][NextTwice]_vars

(***************************************************************************)
(* check_single_instance called on its own.  The process table is part of  *)
(* the state so that what the call leaves alone can be stated.             *)
(***************************************************************************)
InitGuard ==
    /\ InitDirect
    /\ mainNames = MainNameList
    /\ workerNames = WorkerNameList
    /\ input = <<>>
    /\ output = <<>>
    /\ guard \in {NoGuard(l) : l \in LockStates}
    /\ procs \in Tables(cpuCount, PidSets)
    /\ pc = "guard_call"
    /\ mainCores = <<0>>
    /\ workerCores = ComplementCores(cpuCount, mainCores)

guardFrame == <<warnings, sweepWrites, cpuCount, mainCores, mainNames, workerNames, caller, limits, input, output,
                workerCores, procs, iter, mainFound, workerFound, consecutiveFailures,
                log, sweeps, polls, sleeps, envUsed, faults>>

\* win32event.CreateMutex and win32api.GetLastError: the call raises, or it
\* returns a handle and the last error tells whether the mutex existed.
GuardCreate ==
    /\ pc = "guard_call"
    /\ \E raises \in BOOLEAN :
          IF raises
          THEN /\ guard' = [guard EXCEPT !.called = TRUE, !.outcome = "error"]
               /\ pc' = "guard_error_box"
          ELSE IF guard.lock = "other"
          THEN /\ guard' = [guard EXCEPT !.called = TRUE, !.outcome = "exists"]
               /\ pc' = "guard_exists_box"
          ELSE /\ guard' = [guard EXCEPT !.called = TRUE, !.outcome = "created",
                                        !.lock = "ours", !.handle = "mutex"]
               /\ pc' = "returned"
    /\ UNCHANGED <<guardFrame, exitStatus>>

\* check_single_instance without the inner try: a message box that raises
\* is caught by the outer handler, which returns None.
GuardExistsBox_uncaught ==
    /\ pc = "guard_exists_box"
    /\ \E b \in {"shown", "failed"} :
          /\ guard' = [guard EXCEPT !.box = b, !.handle = IF b = "failed" THEN "None" ELSE @]
          /\ IF b = "failed"
             THEN pc' = "returned" /\ UNCHANGED exitStatus
             ELSE pc' = "exited" /\ exitStatus' = 1
    /\ UNCHANGED guardFrame

\* The mutex existed: win32ui.MessageBox, which may raise, then sys.exit(1).
GuardExistsBox ==
    /\ pc = "guard_exists_box"
    /\ \E b \in {"shown", "failed"} : guard' = [guard EXCEPT !.box = b]
    /\ pc' = "exited"
    /\ exitStatus' = 1
    /\ UNCHANGED guardFrame

\* An error of mutex creation that ends the program.
GuardErrorBox_fatal ==
    /\ pc = "guard_error_box"
    /\ \E b \in {"shown", "failed"} : guard' = [guard EXCEPT !.box = b]
    /\ pc' = "exited"
    /\ exitStatus' = 1
    /\ UNCHANGED guardFrame

\* The creation raised: win32ui.MessageBox, which may raise, then return None.
GuardErrorBox ==
    /\ pc = "guard_error_box"
    /\ \E b \in {"shown", "failed"} : guard' = [guard EXCEPT !.box = b, !.handle = "None"]
    /\ pc' = "returned"
    /\ UNCHANGED <<guardFrame, exitStatus>>

NextGuard == GuardCreate \/ GuardExistsBox \/ GuardErrorBox

SpecGuard == InitGuard /\ [][NextGuard]_vars

\* The classification of one process name against the two name lists, as
\* the loop of set_affinities does it.
NameChars == {"m", "M", "x"}
NameLens == {1, 2}
Names == UNION {[1..k -> NameChars] : k \in NameLens}
NameLists(n) == UNION {[1..k -> Names] : k \in 0..n}

InitClassify ==
    /\ InitDirect
    /\ guard = NoGuard("free")
    /\ mainNames \in NameLists(2)
    /\ workerNames \in NameLists(1)
    /\ input \in Names
    /\ output = <<>>
    /\ procs = <<>>
    /\ pc = "classify_call"
    /\ mainCores = <<>>
    /\ workerCores = <<>>

ClassifyCall ==
    /\ pc = "classify_call"
    /\ output' = <<Classify(input, mainNames, workerNames)>>
    /\ pc' = "returned"
    /\ UNCHANGED <<config, warnings, sweepWrites, input, workerCores, procs, iter, mainFound, workerFound,
                   consecutiveFailures, exitStatus, log, sweeps, polls, sleeps,
                   envUsed, faults>>

NextClassify == ClassifyCall

SpecClassify == InitClassify /\ [][NextClassify]_vars

(***************************************************************************)
(* The pure functions called on their own: parse_core_string,              *)
(* validate_cores and calculate_default_main_cores.                        *)
(***************************************************************************)
ParseChars == {"0", "1", "2", "a", "-"}
ParseStrings == UNION {[1..k -> ParseChars] : k \in 0..MaxParseLen}

\* Core numbers below, inside and above the range of a machine.
CoreValues == {-1, 0, 1, 2, 3, 4}
ValidateCpuCounts == {2, 3}
CoreArgs == UNION {[1..k -> CoreValues] : k \in 0..MaxCoreListLen}

InitPure ==
    /\ caller = "direct"
    /\ limits = [polls |-> 0, env |-> 0, faults |-> 0]
    /\ Counters
    /\ mainNames = MainNameList
    /\ workerNames = WorkerNameList
    /\ guard = NoGuard("free")
    /\ procs = <<>>
    /\ mainCores = <<>>
    /\ workerCores = <<>>
    /\ output = <<>>

InitParse ==
    /\ InitPure
    /\ cpuCount \in UnitCpuCounts
    /\ input \in ParseStrings
    /\ pc = "parse_call"

InitValidate ==
    /\ InitPure
    /\ cpuCount \in ValidateCpuCounts
    /\ input \in CoreArgs
    /\ pc = "validate_call"

InitDefault ==
    /\ InitPure
    /\ cpuCount \in 1..MaxCpuCount
    /\ input = <<>>
    /\ pc = "default_call"

pureFrame == <<config, warnings, sweepWrites, input, workerCores, procs, iter, mainFound, workerFound,
               consecutiveFailures, exitStatus, log, sweeps, polls, sleeps,
               envUsed, faults>>

ParseCall ==
    /\ pc = "parse_call"
    /\ output' = parse_core_string(input)
    /\ pc' = "returned"
    /\ UNCHANGED pureFrame

ValidateCall ==
    /\ pc = "validate_call"
    /\ output' = validate_cores(input, cpuCount)
    /\ pc' = "returned"
    /\ UNCHANGED pureFrame

DefaultCall ==
    /\ pc = "default_call"
    /\ output' = calculate_default_main_cores(cpuCount)
    /\ pc' = "returned"
    /\ UNCHANGED pureFrame

NextParse == ParseCall
NextValidate == ValidateCall
NextDefault == DefaultCall

SpecParse == InitParse /\ [][NextParse]_vars
SpecValidate == InitValidate /\ [][NextValidate]_vars
SpecDefault == InitDefault /\ [][NextDefault]_vars

(***************************************************************************)
(* The command from its argument to the loop, for every argument of up to  *)
(* MaxParseLen characters and for no argument, on machines of several      *)
(* sizes without a process to handle.                                      *)
(***************************************************************************)
ConfigCpuCounts == {1, 2, 3, 4, 8, 12, 16}
ConfigArgs == {NoArg} \cup {Arg(str) : str \in ParseStrings}

InitConfig ==
    /\ cpuCount \in ConfigCpuCounts
    /\ caller = "cli"
    /\ limits = [polls |-> 1, env |-> 0, faults |-> 0]
    /\ input \in ConfigArgs
    /\ LET r == validate_cores_callback(input, cpuCount) IN
          /\ mainCores = r.val
          /\ pc = IF r.ok THEN "manage_affinity" ELSE "usage_error"
    /\ workerCores = <<>>
    /\ mainNames = MainNameList
    /\ workerNames = WorkerNameList
    /\ procs = <<>>
    /\ Counters
    /\ output = <<>>
    /\ guard = NoGuard("free")

NextConfig ==
    \/ UsageError
    \/ Configure
    \/ SweepEnter
    \/ SweepReturn
    \/ PollStart
    \/ PollReturn
    \/ Bookkeep
    \/ Sleep

SpecConfig == InitConfig /\ [][NextConfig]_vars

(***************************************************************************)
(* The command run without the main_cores argument on a machine of 1 up to *)
(* MaxCpuCount cores, without a process to handle.                         *)
(***************************************************************************)
InitNoArg ==
    /\ cpuCount \in 1..MaxCpuCount
    /\ caller = "cli"
    /\ limits = [polls |-> 1, env |-> 0, faults |-> 0]
    /\ input = NoArg
    /\ mainCores = validate_cores_callback(input, cpuCount).val
    /\ pc = "manage_affinity"
    /\ workerCores = <<>>
    /\ mainNames = MainNameList
    /\ workerNames = WorkerNameList
    /\ procs = <<>>
    /\ Counters
    /\ output = <<>>
    /\ guard = NoGuard("free")

NextNoArg ==
    \/ Configure
    \/ SweepEnter
    \/ SweepReturn
    \/ PollStart
    \/ PollReturn
    \/ Bookkeep
    \/ Sleep

SpecNoArg == InitNoArg /\ [][NextNoArg]_vars

(***************************************************************************)
(* The command that nobody cancels: the loop of SpecLoop without Ctrl+C.   *)
(* Every step of the command is taken in the end: a call returns or        *)
(* raises, and time.sleep returns. The processes outside the command owe   *)
(* nothing.                                                                *)
(***************************************************************************)
NextLive ==
    \/ Configure
    \/ SweepEnter
    \/ SweepEnumFail
    \/ SweepStep
    \/ SweepReturn
    \/ PollStart
    \/ PollEnumFail
    \/ PollStep
    \/ PollReturn
    \/ Bookkeep
    \/ Sleep
    \/ EnvSetAffinity
    \/ EnvStart
    \/ EnvExit

Fairness ==
    /\ WF_vars(Configure)
    /\ WF_vars(SweepEnter)
    /\ WF_vars(SweepStep)
    /\ WF_vars(SweepReturn)
    /\ WF_vars(PollStart)
    /\ WF_vars(PollStep)
    /\ WF_vars(PollReturn)
    /\ WF_vars(Bookkeep)
    /\ WF_vars(Sleep)

SpecLive == InitLoop /\ [][NextLive]_vars /\ Fairness

(***************************************************************************)
(* Vocabulary of the properties.                                           *)
(***************************************************************************)
\* Two names that differ at most in the case of their letters.
SameName(a, b) == Len(a) = Len(b) /\ \A i \in 1..Len(a) : LowerChar(a[i]) = LowerChar(b[i])

OnList(name, names) == \E i \in 1..Len(names) : SameName(name, names[i])

\* The role of process p, and the cores that role is to run on.
RoleOf(p) ==
    IF OnList(procs[p].name, mainNames) THEN "Main"
    ELSE IF OnList(procs[p].name, workerNames) THEN "Worker"
    ELSE "Unclassified"

TargetOf(p) == IF RoleOf(p) = "Main" THEN mainCores ELSE workerCores

\* The processes the running pass has dealt with, and the calls it made on p.
Visited == DOMAIN procs \ Range(iter)
CallsOf(p) == SelectSeq(log, LAMBDA e : e.pid = p)
NoCallFailed(p) == \A i \in 1..Len(log) : log[i].pid = p => log[i].res = "ok"

\* set_affinities has gone through the whole enumeration.
PassEnd == pc = "poll" /\ iter = <<>>

(***************************************************************************)
(* C1: at the end of a pass of set_affinities, every process classified    *)
(* Main on which no call failed has exactly the main cores as affinity,    *)
(* and every process classified Worker on which no call failed has         *)
(* exactly the worker cores, whatever their affinities were before.        *)
(***************************************************************************)
C1_PassReachesTargets ==
    PassEnd =>
        \A p \in DOMAIN procs :
            NoCallFailed(p) =>
                /\ RoleOf(p) = "Main" => procs[p].aff = Range(mainCores)
                /\ RoleOf(p) = "Worker" => procs[p].aff = Range(workerCores)

\* A pass that has moved a main process and a worker process to their cores.
C1_Witness ==
    /\ PassEnd
    /\ \E p, q \in DOMAIN procs :
          /\ RoleOf(p) = "Main" /\ RoleOf(q) = "Worker"
          /\ \E i \in 1..Len(log) :
                log[i] = SetCall(p, mainCores, "ok") /\ log[i - 1].cur # mainCores
          /\ \E i \in 1..Len(log) :
                log[i] = SetCall(q, workerCores, "ok") /\ log[i - 1].cur # workerCores
          /\ procs[p].aff = Range(mainCores)
          /\ procs[q].aff = Range(workerCores)

(***************************************************************************)
(* C2: handle_main_process / handle_worker_process reads the affinity of   *)
(* the process exactly once; it then writes exactly once, with the target  *)
(* as argument, when the cores read (in ascending order) differ from the   *)
(* target, and does not write when they are equal to it.                   *)
(***************************************************************************)
C2_OneReadThenWriteIfDifferent ==
    pc = "poll" =>
        \A p \in Visited :
            RoleOf(p) # "Unclassified" =>
                LET c == CallsOf(p) IN
                /\ Len(c) >= 1
                /\ c[1].op = "get"
                /\ \A i \in 2..Len(c) : c[i].op = "set"
                /\ IF c[1].res = "ok" /\ c[1].cur # TargetOf(p)
                   THEN Len(c) = 2 /\ c[2].arg = TargetOf(p)
                   ELSE Len(c) = 1

\* One process written after a read that differed, another of two or more
\* cores left alone after a read that matched.
C2_Witness ==
    /\ pc = "poll"
    /\ \E p, q \in Visited :
          /\ RoleOf(p) # "Unclassified" /\ RoleOf(q) # "Unclassified"
          /\ Len(CallsOf(p)) = 2
          /\ CallsOf(q) = <<GetCall(q, TargetOf(q), "ok")>>
          /\ Len(TargetOf(q)) >= 2

(***************************************************************************)
(* C3: in a pass of set_affinities, a read or a write that raises          *)
(* NoSuchProcess, AccessDenied or OSError on one process does not end the  *)
(* pass: the pass never raises because of it, and every main or worker     *)
(* process that comes later in the enumeration is still read.              *)
(***************************************************************************)
C3_FailureIsolated ==
    /\ pc = "raised" =>
          \/ log = <<>>
          \/ log[Len(log)].res \notin {"ok", "NoSuchProcess", "AccessDenied", "OSError"}
    /\ pc = "poll" =>
          \A p \in Visited :
              RoleOf(p) # "Unclassified" => \E i \in 1..Len(log) : log[i].pid = p /\ log[i].op = "get"

\* The pass has come to its end after a call on the first process raised,
\* and has read the second process.
C3_Witness ==
    /\ PassEnd
    /\ \E i, j \in 1..Len(log) :
          /\ log[i].res \in {"NoSuchProcess", "AccessDenied", "OSError"}
          /\ log[j].pid > log[i].pid
          /\ log[j].op = "get"

(***************************************************************************)
(* C4: set_affinities returns main found whenever a process of the         *)
(* enumeration bears a main name, worker found whenever one bears a        *)
(* worker name (and no main name), and neither when no process bears a     *)
(* listed name, whether or not the calls on those processes raise          *)
(* NoSuchProcess, AccessDenied or OSError.                                 *)
(***************************************************************************)
C4_FlagsFollowNames ==
    PassEnd =>
        /\ (\E p \in DOMAIN procs : RoleOf(p) = "Main") => mainFound
        /\ (\E p \in DOMAIN procs : RoleOf(p) = "Worker") => workerFound
        /\ (\A p \in DOMAIN procs : RoleOf(p) = "Unclassified") =>
              ~mainFound /\ ~workerFound

(***************************************************************************)
(* C5: set_affinities makes no call on a process that bears neither a      *)
(* main name nor a worker name, and no step of the pass changes the        *)
(* affinity of such a process.                                             *)
(***************************************************************************)
C5_UnmatchedUntouched ==
    [][\A p \in DOMAIN procs :
          RoleOf(p) = "Unclassified" =>
              /\ procs'[p].aff = procs[p].aff
              /\ \A i \in 1..Len(log') : log'[i].pid # p]_vars

\* A pass that has gone past an unlisted process that sits on cores other
\* than the worker cores, and has made calls on the other process.
C5_Witness ==
    /\ PassEnd
    /\ log # <<>>
    /\ \E p \in DOMAIN procs :
          /\ RoleOf(p) = "Unclassified"
          /\ procs[p].aff # Range(workerCores)
          /\ \E q \in DOMAIN procs : q > p /\ RoleOf(q) # "Unclassified"

(***************************************************************************)
(* C6: a process name is classified Main exactly when it is equal, letter  *)
(* case set aside, to a whole name of the main list, and, the two lists    *)
(* having no name in common, Worker exactly when it is equal in that way   *)
(* to a whole name of the worker list; a listed name that is only a part   *)
(* of the process name, or of which the process name is only a part, does  *)
(* not classify it.                                                        *)
(***************************************************************************)
C6_ExactCaseInsensitive ==
    pc = "returned" /\ output # <<>> =>
        /\ output = <<"Main">> <=> OnList(input, mainNames)
        /\ (\A i \in 1..Len(mainNames) : ~OnList(mainNames[i], workerNames)) =>
              (output = <<"Worker">> <=> OnList(input, workerNames))
        /\ output[1] \in {"Main", "Worker", "Unclassified"}

\* A name left unclassified although a main name is its ending and a worker
\* name, in the other letter case, is its beginning.
C6_Witness ==
    /\ pc = "returned"
    /\ output = <<"Unclassified">>
    /\ Len(input) = 2
    /\ \E i \in 1..Len(mainNames) : mainNames[i] = <<input[2]>>
    /\ \E i \in 1..Len(workerNames) :
          /\ Len(workerNames[i]) = 1
          /\ workerNames[i] # <<input[1]>>
          /\ SameName(workerNames[i], <<input[1]>>)

(***************************************************************************)
(* C7: move_processes_from_main_cores is called at most once in a run;     *)
(* once the program is in the monitoring loop it has been called exactly   *)
(* once and has returned, and while it is being called or runs no          *)
(* set_affinities call and no sleep has taken place.                       *)
(***************************************************************************)
C7_SweepOnceBeforeLoop ==
    /\ sweeps <= 1
    /\ (pc \in {"poll_call", "poll", "bookkeep", "sleep"} \/ polls > 0 \/ sleeps > 0) =>
          sweeps = 1
    /\ pc \in {"sweep_call", "sweep"} => polls = 0 /\ sleeps = 0

\* The loop has made all its polls, with sleeps in between, after one sweep.
C7_Witness ==
    /\ polls = limits.polls
    /\ polls >= 2
    /\ sleeps >= 1
    /\ sweeps = 1
    /\ pc = "sleep"

(***************************************************************************)
(* C8: every cpu_affinity write of the sweep is on a process that bears    *)
(* no main name and follows a read of that process that returned only      *)
(* main cores.                                                             *)
(***************************************************************************)
C8_SweepWritesOnlyCamped ==
    pc \in {"sweep", "raised"} =>
        \A i \in 1..Len(log) :
            log[i].op = "set" =>
                /\ ~OnList(procs[log[i].pid].name, mainNames)
                /\ i > 1
                /\ log[i - 1].op = "get"
                /\ log[i - 1].pid = log[i].pid
                /\ log[i - 1].res = "ok"
                /\ Range(log[i - 1].cur) \subseteq Range(mainCores)

\* The sweep has moved one process and has read and left alone another
\* that sits on a main core and on a core that is not a main core.
C8_Witness ==
    /\ pc = "sweep"
    /\ iter = <<>>
    /\ \E p, q \in DOMAIN procs :
          /\ SetCall(p, workerCores, "ok") \in Range(log)
          /\ procs[q].aff \cap Range(mainCores) # {}
          /\ ~(procs[q].aff \subseteq Range(mainCores))
          /\ CallsOf(q) = <<GetCall(q, Sorted(ListOfSet(procs[q].aff)), "ok")>>

(***************************************************************************)
(* C9: called with an empty list of worker cores, the sweep returns at     *)
(* once: it enumerates nothing, makes no cpu_affinity call, raises         *)
(* nothing and leaves every affinity as it was, so that no process gets    *)
(* an empty affinity.                                                      *)
(***************************************************************************)
C9_EmptyWorkerCoresNoOp ==
    [][workerCores = <<>> =>
          /\ pc' = "returned"
          /\ iter' = <<>>
          /\ log' = <<>>
          /\ faults' = faults
          /\ procs' = procs
          /\ \A p \in DOMAIN procs : procs'[p].aff # {}]_vars

\* The sweep has returned, without worker cores, from a table that holds a
\* process it would have moved.
C9_Witness ==
    /\ pc = "returned"
    /\ workerCores = <<>>
    /\ sweeps = 1
    /\ \E p \in DOMAIN procs :
          /\ p > SystemPidLimit
          /\ ~OnList(procs[p].name, mainNames)
          /\ procs[p].aff \subseteq Range(mainCores)

(***************************************************************************)
(* C10: when the main cores cover every core of the machine the command    *)
(* ends with a non-zero exit status and makes no call of the sweep, of     *)
(* set_affinities or of sleep.                                             *)
(***************************************************************************)
C10_NoWorkerCoresAborts ==
    Cores(cpuCount) \subseteq Range(mainCores) =>
        /\ sweeps = 0 /\ polls = 0 /\ sleeps = 0
        /\ pc \in {"manage_affinity", "usage_error", "exited"}
        /\ pc = "exited" => exitStatus # 0

\* The command given both cores of a machine of two cores has ended.
C10_Witness ==
    /\ pc = "exited"
    /\ exitStatus = 1
    /\ cpuCount = 2
    /\ Range(mainCores) = Cores(cpuCount)
    /\ workerCores = <<>>
    /\ sweeps = 0 /\ polls = 0

(***************************************************************************)
(* C11: no run of main() calls the sweep or set_affinities before          *)
(* check_single_instance has been called.                                  *)
(***************************************************************************)
C11_GuardBeforeSweep ==
    (sweeps > 0 \/ polls > 0 \/ pc \in {"sweep_call", "sweep", "poll_call", "poll"}) =>
        guard.called

(***************************************************************************)
(* C12: when CreateMutex returns and the mutex was held by another         *)
(* instance, check_single_instance tries the message box and then exits    *)
(* with status 1, whether or not the message box could be shown; it does   *)
(* not return, and no sweep, no poll and no change of an affinity takes    *)
(* place.                                                                  *)
(***************************************************************************)
C12_AlreadyRunningExits ==
    [][/\ (guard.lock = "other" /\ guard'.called) => guard'.outcome \in {"exists", "error"}
       /\ guard'.outcome = "exists" =>
             /\ pc' \in {"guard_exists_box", "exited"}
             /\ pc' = "exited" => exitStatus' = 1 /\ guard'.box \in {"shown", "failed"}
             /\ pc' # "exited" => exitStatus' = -1 /\ guard'.box = "none"
             /\ sweeps' = 0 /\ polls' = 0 /\ log' = <<>>
             /\ procs' = procs]_vars

\* The call has ended the process although the message box could not be shown.
C12_Witness ==
    /\ guard.lock = "other"
    /\ guard.outcome = "exists"
    /\ guard.box = "failed"
    /\ pc = "exited"
    /\ exitStatus = 1

(***************************************************************************)
(* C13: when the creation of the mutex raises, check_single_instance       *)
(* tries the message box and returns None, whether or not the message box  *)
(* could be shown: it never exits and never raises.                        *)
(***************************************************************************)
C13_AcquireErrorContinues ==
    guard.outcome = "error" =>
        /\ pc \in {"guard_error_box", "returned"}
        /\ exitStatus = -1
        /\ pc = "returned" => guard.handle = "None" /\ guard.box \in {"shown", "failed"}
        /\ guard.lock \in LockStates

\* The call has returned None after the creation and the message box raised.
C13_Witness ==
    /\ guard.outcome = "error"
    /\ guard.box = "failed"
    /\ guard.handle = "None"
    /\ pc = "returned"

(***************************************************************************)
(* C14: in the monitoring loop, a step in which a call of the poll raises  *)
(* leaves the program in the poll or takes it to the sleep, never to its   *)
(* end; the sleep leads back to the next poll; and the only step that      *)
(* ends the program from the loop is the KeyboardInterrupt.                *)
(***************************************************************************)
C14_PollFailureNeverStops ==
    [][/\ (pc \in {"poll_call", "poll"} /\ faults' > faults) =>
             pc' \in {"poll", "sleep"} /\ exitStatus' = -1
       /\ (pc = "sleep" /\ pc' # pc) => pc' \in {"poll_call", "exited"}
       /\ (pc \in {"poll_call", "poll", "bookkeep", "sleep"} /\ pc' = "exited") =>
             Interrupt /\ faults' = faults]_vars

\* The first poll has raised out of set_affinities, which skips the
\* bookkeeping; the program has slept and is at the second poll.
C14_Witness ==
    /\ pc = "poll_call"
    /\ polls = 1
    /\ sleeps = 1
    /\ faults >= 1
    /\ ~mainFound /\ ~workerFound
    /\ consecutiveFailures = 0
    /\ exitStatus = -1

(***************************************************************************)
(* C15: a KeyboardInterrupt that arrives during time.sleep ends the        *)
(* program with exit status 0, without a further poll and without a        *)
(* change of an affinity.                                                  *)
(***************************************************************************)
C15_CancelInSleepExitsZero ==
    [][(pc = "sleep" /\ pc' = "exited") =>
          /\ exitStatus' = 0
          /\ polls' = polls
          /\ procs' = procs]_vars

(***************************************************************************)
(* C16: when a pass of set_affinities has come to its end without a call   *)
(* that raised and the next pass runs on the unchanged process table,      *)
(* that pass makes no cpu_affinity write: every process is already at its  *)
(* target.                                                                 *)
(***************************************************************************)
C16_SecondPassWritesNothing ==
    (polls = 2 /\ pc \in {"poll", "raised"} /\ Cardinality(Failed(log)) = faults) =>
        \A i \in 1..Len(log) : log[i].op # "set"

\* The second pass has read a main and a worker process, one of them with
\* a target of two cores, and has come to its end.
C16_Witness ==
    /\ polls = 2
    /\ PassEnd
    /\ faults = 0
    /\ \E p, q \in DOMAIN procs :
          /\ RoleOf(p) = "Main" /\ RoleOf(q) = "Worker"
          /\ Len(TargetOf(p)) = 2
          /\ CallsOf(p) = <<GetCall(p, mainCores, "ok")>>
          /\ CallsOf(q) = <<GetCall(q, workerCores, "ok")>>

(***************************************************************************)
(* C17: parse_core_string, given a string whose pieces between the         *)
(* hyphens are all non-empty strings of digits, returns the numbers they   *)
(* denote in strictly ascending order, each once; given any other string,  *)
(* the empty one included, it fails and returns nothing.                   *)
(***************************************************************************)
\* The positions that bound the pieces of str: before it, its hyphens,
\* after it.
Bounds(str) == {0, Len(str) + 1} \cup {i \in 1..Len(str) : str[i] = "-"}

Pieces(str) ==
    {SubSeq(str, a + 1, b - 1) :
        <<a, b>> \in {x \in Bounds(str) \X Bounds(str) :
                        x[1] < x[2] /\ \A h \in Bounds(str) : ~(x[1] < h /\ h < x[2])}}

IsNumeral(t) == t # <<>> /\ \A i \in 1..Len(t) : t[i] \in {"0", "1", "2"}

RECURSIVE NumberOf(_)
NumberOf(t) ==
    IF t = <<>> THEN 0
    ELSE 10 * NumberOf(SubSeq(t, 1, Len(t) - 1))
         + (CASE t[Len(t)] = "0" -> 0 [] t[Len(t)] = "1" -> 1 [] t[Len(t)] = "2" -> 2)

C17_ParseSortsAndDedups ==
    pc = "returned" =>
        IF \A t \in Pieces(input) : IsNumeral(t)
        THEN /\ output.ok
             /\ Range(output.val) = {NumberOf(t) : t \in Pieces(input)}
             /\ \A i, j \in 1..Len(output.val) : i < j => output.val[i] < output.val[j]
        ELSE ~output.ok /\ output.val = <<>>

\* "2-0-2" has been parsed to [0, 2].
C17_Witness ==
    /\ pc = "returned"
    /\ input = <<"2", "-", "0", "-", "2">>
    /\ output = Ok(<<0, 2>>)

(***************************************************************************)
(* C18: validate_cores fails exactly when one of the cores given is        *)
(* below 0 or is the number of cores of the machine or more; otherwise it  *)
(* returns the list it was given, same cores in the same order.            *)
(***************************************************************************)
C18_ValidateRange ==
    pc = "returned" =>
        /\ ~output.ok <=> \E i \in 1..Len(input) : input[i] \notin 0..(cpuCount - 1)
        /\ output.ok => output.val = input

\* An unsorted list with a repeated core and the last core of the machine
\* has been returned as it was.
C18_Witness ==
    /\ pc = "returned"
    /\ output.ok
    /\ Len(input) = 3
    /\ input[1] = cpuCount - 1
    /\ input[2] = 0 /\ input[3] = 0
    /\ output.val = input

(***************************************************************************)
(* C19: calculate_default_main_cores returns [0] on a machine of up to 4   *)
(* cores, [0, 1] on 5 to 8 cores, and above that the first k cores where   *)
(* k is a quarter of the cores rounded down, at least 2 and at most 4      *)
(* (2 on 9 to 11 cores, 3 on 12 to 15, 4 on 16 or more).                   *)
(***************************************************************************)
C19_DefaultTiers ==
    pc = "returned" =>
        /\ cpuCount <= 4 => output = <<0>>
        /\ cpuCount \in 5..11 => output = <<0, 1>>
        /\ cpuCount \in 12..15 => output = <<0, 1, 2>>
        /\ cpuCount >= 16 => output = <<0, 1, 2, 3>>
        /\ Len(output) <= 4
        /\ cpuCount > 8 =>
              \E q \in 0..cpuCount :
                  /\ 4 * q <= cpuCount /\ cpuCount < 4 * (q + 1)
                  /\ LET k == IF q < 2 THEN 2 ELSE IF q > 4 THEN 4 ELSE q IN
                     output = [i \in 1..k |-> i - 1]

\* The default of a machine of 24 cores is the first 4 cores.
C19_Witness ==
    /\ pc = "returned"
    /\ cpuCount = 24
    /\ output = <<0, 1, 2, 3>>

(***************************************************************************)
(* C20: a poll in which the call of set_affinities raises counts for       *)
(* consecutive_failures like a poll that found no process: the step that   *)
(* takes the failed poll to the sleep adds one to the counter, or resets   *)
(* it when that makes it reach 5.                                          *)
(***************************************************************************)
C20_FailedPollCounts ==
    [][(pc \in {"poll_call", "poll"} /\ pc' = "sleep") =>
          consecutiveFailures' =
              IF consecutiveFailures + 1 >= 5 THEN 0 ELSE consecutiveFailures + 1]_vars

(***************************************************************************)
(* C21: the bookkeeping of a poll that returned adds one to                *)
(* consecutive_failures when both flags are false and sets it to 0 when    *)
(* one is true; the warning is logged exactly when that makes the counter  *)
(* reach 5, and the counter is set to 0 in the same step; the loop goes    *)
(* on to the sleep.  So the counter stays below 5, and after N polls that  *)
(* all returned with both flags false N \div 5 warnings have been logged.  *)
(***************************************************************************)
C21_CounterAndWarning ==
    [][/\ pc = "bookkeep" =>
             /\ pc' \in {"sleep", "exited"}
             /\ pc' = "sleep" =>
                   IF mainFound \/ workerFound
                   THEN consecutiveFailures' = 0 /\ warnings' = warnings
                   ELSE IF consecutiveFailures = 4
                   THEN consecutiveFailures' = 0 /\ warnings' = warnings + 1
                   ELSE consecutiveFailures' = consecutiveFailures + 1 /\ warnings' = warnings
       /\ pc # "bookkeep" => consecutiveFailures' = consecutiveFailures /\ warnings' = warnings
       /\ consecutiveFailures' \in 0..4
       /\ (/\ pc' = "sleep" /\ envUsed' = 0 /\ faults' = 0
           /\ \A p \in DOMAIN procs' : ~OnList(procs'[p].name, mainNames \o workerNames)) =>
             /\ warnings' = polls' \div 5
             /\ consecutiveFailures' = polls' % 5]_vars

\* Ten polls in a row have found no process: two warnings, counter at 0.
C21_Witness ==
    /\ pc = "sleep"
    /\ polls = 10
    /\ warnings = 2
    /\ consecutiveFailures = 0
    /\ envUsed = 0 /\ faults = 0

(***************************************************************************)
(* C22: polls and sleeps alternate.  At the top of the loop as many        *)
(* sleeps as polls have been made; during a poll, its bookkeeping and the  *)
(* sleep that follows it, one sleep fewer, whether the poll returned or    *)
(* raised.  A KeyboardInterrupt during the poll or its bookkeeping ends    *)
(* the program with exit status 0 and without a further sleep: k polls,    *)
(* k - 1 sleeps.                                                           *)
(***************************************************************************)
C22_PollsAndSleepsAlternate ==
    [][/\ pc' = "poll_call" => sleeps' = polls'
       /\ pc' \in {"poll", "bookkeep", "sleep"} => sleeps' = polls' - 1
       /\ (pc \in {"poll", "bookkeep"} /\ pc' = "exited") =>
             exitStatus' = 0 /\ polls' = polls /\ sleeps' = polls - 1
       /\ (pc = "poll_call" /\ pc' = "exited") =>
             exitStatus' = 0 /\ polls' = polls /\ sleeps' = polls
       /\ (pc \in {"poll_call", "poll"} /\ pc' \notin {"poll_call", "poll", "exited"}) =>
             pc' \in {"bookkeep", "sleep"}]_vars

\* The program has been interrupted in its fourth poll, in a run in which
\* a call raised, and has slept three times.
C22_Witness ==
    /\ pc = "exited"
    /\ exitStatus = 0
    /\ polls = 4
    /\ sleeps = 3
    /\ faults >= 1
    /\ mainFound

(***************************************************************************)
(* C23: with worker cores, the sweep makes no call on a process with a     *)
(* pid of 4 or less or with a main name; it reads every other process      *)
(* once, and writes the worker cores, once, exactly when the read          *)
(* succeeded and returned only main cores; a successful write leaves the   *)
(* process on the worker cores.                                            *)
(***************************************************************************)
C23_SweepMovesExactlyTheCamped ==
    pc = "sweep" =>
        \A p \in Visited :
            LET c == CallsOf(p) IN
            IF p <= SystemPidLimit \/ OnList(procs[p].name, mainNames)
            THEN c = <<>>
            ELSE /\ Len(c) >= 1
                 /\ c[1].op = "get"
                 /\ IF c[1].res = "ok" /\ Range(c[1].cur) \subseteq Range(mainCores)
                    THEN /\ Len(c) = 2
                         /\ c[2].op = "set"
                         /\ c[2].arg = workerCores
                         /\ c[2].res = "ok" => procs[p].aff = Range(workerCores)
                    ELSE Len(c) = 1

\* Two processes have been moved, one from all the main cores, one from a
\* part of them.
C23_Witness ==
    /\ pc = "sweep"
    /\ iter = <<>>
    /\ Len(mainCores) = 2
    /\ \E p, q \in DOMAIN procs :
          /\ CallsOf(p) = <<GetCall(p, mainCores, "ok"), SetCall(p, workerCores, "ok")>>
          /\ CallsOf(q) = <<GetCall(q, <<mainCores[2]>>, "ok"), SetCall(q, workerCores, "ok")>>

(***************************************************************************)
(* C24: the sweep makes no cpu_affinity call, read or write, on a process  *)
(* with a pid of 4 or less, and no step of it changes such a process.      *)
(***************************************************************************)
C24_SystemPidsUntouched ==
    [][/\ \A i \in 1..Len(log') : log'[i].pid > 4
       /\ \A p \in DOMAIN procs : p <= 4 => procs'[p] = procs[p]]_vars

\* The sweep has gone past process 4, which bears no main name and sits on
\* main cores only, and has moved process 5.
C24_Witness ==
    /\ pc = "sweep"
    /\ iter = <<>>
    /\ 4 \in DOMAIN procs
    /\ ~OnList(procs[4].name, mainNames)
    /\ procs[4].aff \subseteq Range(mainCores)
    /\ SetCall(5, workerCores, "ok") \in Range(log)

(***************************************************************************)
(* C25: a read or a write of the sweep that raises NoSuchProcess,          *)
(* AccessDenied or OSError on one process does not end the sweep: the      *)
(* sweep never raises because of it, every later process without a main    *)
(* name and with a pid above 4 is still read, and is written when it sits  *)
(* on main cores only.                                                     *)
(***************************************************************************)
C25_SweepFailureIsolated ==
    /\ pc = "raised" =>
          \/ log = <<>>
          \/ log[Len(log)].res \notin {"ok", "NoSuchProcess", "AccessDenied", "OSError"}
    /\ pc = "sweep" =>
          \A p \in Visited :
              (p > 4 /\ ~OnList(procs[p].name, mainNames)) =>
                  \E i \in 1..Len(log) :
                      /\ log[i].pid = p /\ log[i].op = "get"
                      /\ (log[i].res = "ok" /\ Range(log[i].cur) \subseteq Range(mainCores)) =>
                            (i < Len(log) /\ log[i + 1].pid = p /\ log[i + 1].op = "set")

\* The sweep has come to its end: a call on process 5 raised and process 6
\* has been moved.
C25_Witness ==
    /\ pc = "sweep"
    /\ iter = <<>>
    /\ \E i \in 1..Len(log) :
          log[i].pid = 5 /\ log[i].res \in {"NoSuchProcess", "AccessDenied", "OSError"}
    /\ SetCall(6, workerCores, "ok") \in Range(log)

(***************************************************************************)
(* C30: when the sweep, given worker cores, has come to its end and no     *)
(* call has raised, no process with a pid above 4 and without a main name  *)
(* sits on main cores only; and no step of the sweep changes a process     *)
(* that has a core outside the main cores.                                 *)
(***************************************************************************)
C30_SweepPostcondition ==
    [][/\ (pc' = "sweep" /\ iter' = <<>> /\ faults' = 0 /\ workerCores # <<>>) =>
             \A p \in DOMAIN procs' :
                 (p > 4 /\ ~OnList(procs'[p].name, mainNames)) =>
                     ~(procs'[p].aff \subseteq Range(mainCores))
       /\ \A p \in DOMAIN procs :
             ~(procs[p].aff \subseteq Range(mainCores)) => procs'[p] = procs[p]]_vars

\* The sweep has come to its end with one process moved off the main cores
\* and the other, which sat on a main core and a worker core, left there.
C30_Witness ==
    /\ pc = "sweep"
    /\ iter = <<>>
    /\ faults = 0
    /\ \E p, q \in DOMAIN procs :
          /\ SetCall(p, workerCores, "ok") \in Range(log)
          /\ procs[p].aff = Range(workerCores)
          /\ Len(CallsOf(q)) = 1
          /\ procs[q].aff \cap Range(mainCores) # {}
          /\ procs[q].aff \cap Range(workerCores) # {}

(***************************************************************************)
(* C26: whenever the sweep or the loop runs, the main cores and the        *)
(* worker cores are two strictly ascending lists of cores of the machine   *)
(* that have no core in common and together hold every core, and the       *)
(* worker cores are not empty; whether the main cores were given as an     *)
(* argument or are the default.                                            *)
(***************************************************************************)
C26_CoresPartition ==
    pc \in {"sweep_call", "sweep", "poll_call", "poll", "bookkeep", "sleep"} =>
        /\ \A i \in 1..Len(mainCores) : mainCores[i] >= 0 /\ mainCores[i] < cpuCount
        /\ \A i \in 1..Len(workerCores) : workerCores[i] >= 0 /\ workerCores[i] < cpuCount
        /\ \A i, j \in 1..Len(mainCores) : i < j => mainCores[i] < mainCores[j]
        /\ \A i, j \in 1..Len(workerCores) : i < j => workerCores[i] < workerCores[j]
        /\ \A i \in 1..Len(mainCores), j \in 1..Len(workerCores) : mainCores[i] # workerCores[j]
        /\ \A c \in 0..(cpuCount - 1) :
               (\E i \in 1..Len(mainCores) : mainCores[i] = c)
               \/ (\E j \in 1..Len(workerCores) : workerCores[j] = c)
        /\ workerCores # <<>>

\* The command given "2-0-2" on a machine of 4 cores sleeps after its poll
\* with main cores [0, 2] and worker cores [1, 3].
C26_Witness ==
    /\ pc = "sleep"
    /\ cpuCount = 4
    /\ input = Arg(<<"2", "-", "0", "-", "2">>)
    /\ mainCores = <<0, 2>>
    /\ workerCores = <<1, 3>>

(***************************************************************************)
(* C28: once the command has computed its core lists they never change,    *)
(* and every cpu_affinity write of the sweep and of the polls is given one *)
(* of the two: the sweep always the worker cores, a poll the main cores    *)
(* for a process classified Main and the worker cores for one classified   *)
(* Worker, and never an empty list.                                        *)
(***************************************************************************)
C28_WritesUseStartupTargets ==
    [][/\ pc \notin {"manage_affinity", "usage_error"} =>
            mainCores' = mainCores /\ workerCores' = workerCores
       /\ \A i \in 1..Len(log') : log'[i].op = "set" =>
            /\ log'[i].arg # <<>>
            /\ log'[i].arg \in {mainCores', workerCores'}
            /\ pc' = "sweep" => log'[i].arg = workerCores'
            /\ pc' = "poll" /\ OnList(procs'[log'[i].pid].name, mainNames) =>
                    log'[i].arg = mainCores'
            /\ pc' = "poll" /\ ~OnList(procs'[log'[i].pid].name, mainNames) =>
                    log'[i].arg = workerCores']_vars

\* A poll after the sweep has written the main cores to a main process and
\* the worker cores to a worker process.
C28_Witness ==
    /\ pc = "poll"
    /\ sweeps = 1
    /\ \E p, q \in DOMAIN procs :
          /\ RoleOf(p) = "Main"
          /\ RoleOf(q) = "Worker"
          /\ \E i, j \in 1..Len(log) :
                /\ log[i] = SetCall(p, mainCores, "ok")
                /\ log[j] = SetCall(q, workerCores, "ok")

(***************************************************************************)
(* C29: once the sweep has returned, no step of the command changes the    *)
(* affinity of a process whose name is on neither list, and no poll makes  *)
(* a cpu_affinity call on one: such a process that starts on the main      *)
(* cores after the sweep, or moves itself there, is still there at the end *)
(* of every later poll.                                                    *)
(***************************************************************************)
C29_UnclassifiedLeftAlone ==
    [][(pc \in {"poll_call", "poll", "bookkeep", "sleep"}) =>
          /\ envUsed' = envUsed =>
                \A p \in DOMAIN procs :
                    RoleOf(p) = "Unclassified" =>
                        p \in DOMAIN procs' /\ procs'[p] = procs[p]
          /\ pc' = "poll" =>
                \A i \in 1..Len(log') :
                    (OnList(procs'[log'[i].pid].name, mainNames)
                     \/ OnList(procs'[log'[i].pid].name, workerNames))]_vars

\* The second poll has gone through the table, no call of the run has
\* failed, and a process on neither list sits on main cores only: it came
\* there after the sweep, which would have moved it.
C29_Witness ==
    /\ PassEnd
    /\ polls >= 2
    /\ faults = 0
    /\ \E p \in DOMAIN procs :
          /\ p > SystemPidLimit
          /\ RoleOf(p) = "Unclassified"
          /\ procs[p].aff # {}
          /\ procs[p].aff \subseteq Range(mainCores)

(***************************************************************************)
(* C27: in a run that nobody cancels, whenever the loop is about to poll   *)
(* and a process classified Main or Worker is running, whatever its        *)
(* affinity is and whoever set it, the very next poll goes through the     *)
(* table and ends with the process on exactly its target cores, unless the *)
(* process exits or a call of that poll fails.                             *)
(***************************************************************************)
C27_NextPollRestoresTarget ==
    \A p \in LoopPids, k \in 0..(MaxLoopPolls - 1), f \in 0..MaxFaults :
        (/\ pc = "poll_call"
         /\ polls = k
         /\ k < limits.polls
         /\ faults = f
         /\ p \in DOMAIN procs
         /\ RoleOf(p) # "Unclassified")
        ~> (\/ p \notin DOMAIN procs
            \/ faults > f
            \/ (/\ PassEnd
                /\ polls = k + 1
                /\ procs[p].aff = Range(TargetOf(p))))

\* No call of the run has failed, the process was changed from outside, and
\* a poll after the first has written its target cores back.
C27_Witness ==
    /\ PassEnd
    /\ polls >= 2
    /\ faults = 0
    /\ envUsed >= 1
    /\ \E p \in DOMAIN procs :
          /\ RoleOf(p) # "Unclassified"
          /\ procs[p].aff = Range(TargetOf(p))
          /\ \E i \in 1..Len(log) : log[i] = SetCall(p, TargetOf(p), "ok")

(***************************************************************************)
(* C31: at the end of a pass of set_affinities, a process whose name is on *)
(* the main list and on the worker list has been handled as a main         *)
(* process only: its affinity was read once, every write on it was given   *)
(* the main cores and there was at most one, main found is set, and worker *)
(* found is set only if another process bears a worker name alone.         *)
(***************************************************************************)
C31_BothListsMeansMain ==
    PassEnd =>
        \A p \in DOMAIN procs :
            OnList(procs[p].name, mainNames) /\ OnList(procs[p].name, workerNames) =>
                /\ Len(SelectSeq(CallsOf(p), LAMBDA e : e.op = "get")) = 1
                /\ Len(SelectSeq(CallsOf(p), LAMBDA e : e.op = "set")) <= 1
                /\ \A i \in 1..Len(log) :
                      log[i].pid = p /\ log[i].op = "set" => log[i].arg = mainCores
                /\ mainFound
                /\ workerFound => \E q \in DOMAIN procs \ {p} : RoleOf(q) = "Worker"

(***************************************************************************)
(* C32: while the loop sleeps and when it is about to poll,                *)
(* consecutive_failures is one of 0, 1, 2, 3, 4, whatever polls returned,  *)
(* polls that raised and warnings came before.                             *)
(***************************************************************************)
C32_CounterInRange ==
    pc \in {"sleep", "poll_call"} =>
        consecutiveFailures >= 0 /\ consecutiveFailures < 5

\* The loop sleeps with the counter at 4 for the second time: a warning was
\* logged and a poll has raised since the start.
C32_Witness ==
    /\ pc = "sleep"
    /\ consecutiveFailures = 4
    /\ warnings = 1
    /\ faults = 1

(***************************************************************************)
(* C33: a KeyboardInterrupt during a poll ends the poll and the command at *)
(* once: the step changes no process, the processes of the enumeration     *)
(* that were not reached stay unreached, the bookkeeping is not run        *)
(* (consecutive_failures and the warnings stay as they were, no poll and   *)
(* no sleep is added), the exit status is 0, and the command takes no      *)
(* further step.                                                           *)
(***************************************************************************)
C33_CancelAbortsPoll ==
    [][/\ pc # "exited"
       /\ (pc = "poll" /\ pc' \notin {"poll", "bookkeep", "sleep"}) =>
             /\ pc' = "exited"
             /\ exitStatus' = 0
             /\ procs' = procs
             /\ iter' = iter
             /\ consecutiveFailures' = consecutiveFailures
             /\ warnings' = warnings
             /\ polls' = polls
             /\ sleeps' = sleeps]_vars

\* The command has ended with status 0 in the middle of its second poll:
\* one process was handled and found, the other was never reached.
C33_Witness ==
    /\ pc = "exited"
    /\ exitStatus = 0
    /\ polls = 2
    /\ sleeps = 1
    /\ Len(iter) = 1
    /\ Cardinality(DOMAIN procs) = 2
    /\ mainFound \/ workerFound

(***************************************************************************)
(* C34: run without the main_cores argument on a machine of two or more    *)
(* cores, the command has main cores that leave at least one core of the   *)
(* machine out, computes worker cores that are not empty and goes on to    *)
(* the sweep and the loop; on a machine of one core the main cores are     *)
(* [0], the worker cores are empty and the command ends with a non-zero    *)
(* exit status before the sweep.                                           *)
(***************************************************************************)
C34_DefaultLeavesWorkerCores ==
    [][/\ pc = "manage_affinity" =>
             IF cpuCount >= 2
             THEN /\ Range(mainCores) \subseteq Cores(cpuCount)
                  /\ Range(mainCores) # Cores(cpuCount)
                  /\ workerCores' # <<>>
                  /\ pc' = "sweep_call"
                  /\ exitStatus' = -1
             ELSE /\ mainCores = <<0>>
                  /\ workerCores' = <<>>
                  /\ pc' = "exited"
                  /\ exitStatus' = 1
       /\ pc' = "exited" => cpuCount = 1 /\ sweeps' = 0 /\ polls' = 0
       /\ pc' \in {"poll_call", "poll", "bookkeep", "sleep"} => cpuCount >= 2 /\ sweeps' = 1]_vars

\* On a machine of two cores the loop polls with main cores [0] and worker
\* cores [1].
C34_Witness ==
    /\ pc = "poll"
    /\ cpuCount = 2
    /\ input = NoArg
    /\ mainCores = <<0>>
    /\ workerCores = <<1>>

(***************************************************************************)
(* The writes on process p the sweep made and the running poll has made.   *)
(***************************************************************************)
SweepWritesOn(p) == SelectSeq(sweepWrites, LAMBDA e : e.pid = p)
PollWritesOn(p) == SelectSeq(log, LAMBDA e : e.pid = p /\ e.op = "set")
Succeeded(calls) == SelectSeq(calls, LAMBDA e : e.res = "ok")

\* The first poll of the command, when no other program has changed an
\* affinity since the command started.
FirstPollUndisturbed == pc = "poll" /\ polls = 1 /\ envUsed = 0

(***************************************************************************)
(* C35 as stated: during the first poll, when nobody has changed an        *)
(* affinity since the sweep, a process with a worker name that the sweep   *)
(* moved to the worker cores has received no write from the poll, a        *)
(* process with a main name has received no write from the sweep, and      *)
(* every process has received at most one cpu_affinity write from the      *)
(* sweep and the poll together.                                            *)
(***************************************************************************)
C35_AtMostOneWrite ==
    FirstPollUndisturbed =>
        \A p \in DOMAIN procs :
            /\ (RoleOf(p) = "Worker" /\ Succeeded(SweepWritesOn(p)) # <<>>) =>
                    PollWritesOn(p) = <<>>
            /\ RoleOf(p) = "Main" => SweepWritesOn(p) = <<>>
            /\ Len(SweepWritesOn(p)) + Len(PollWritesOn(p)) <= 1

(***************************************************************************)
(* C35 amended: during the first poll, when nobody has changed an affinity *)
(* since the sweep, a process with a worker name that the sweep moved to   *)
(* the worker cores has received no write from the poll, a process with a  *)
(* main name has received no write from the sweep, and every process has   *)
(* received at most one write that succeeded from the sweep and the poll   *)
(* together, and at most one write at all unless the write of the sweep on *)
(* it raised: the poll then writes again.                                  *)
(***************************************************************************)
C35_AtMostOneWriteUnlessSweepFailed ==
    FirstPollUndisturbed =>
        \A p \in DOMAIN procs :
            /\ (RoleOf(p) = "Worker" /\ Succeeded(SweepWritesOn(p)) # <<>>) =>
                    PollWritesOn(p) = <<>>
            /\ RoleOf(p) = "Main" => SweepWritesOn(p) = <<>>
            /\ Len(Succeeded(SweepWritesOn(p))) + Len(Succeeded(PollWritesOn(p))) <= 1
            /\ Succeeded(SweepWritesOn(p)) = SweepWritesOn(p) =>
                    Len(SweepWritesOn(p)) + Len(PollWritesOn(p)) <= 1

\* The first poll has gone through the table: it has read the affinity of
\* a worker process that the sweep moved off the main cores and has not
\* written it, and it has written a main process that the sweep left alone.
C35_Witness ==
    /\ FirstPollUndisturbed
    /\ iter = <<>>
    /\ \E p, q \in DOMAIN procs :
          /\ RoleOf(p) = "Worker"
          /\ SweepWritesOn(p) = <<SetCall(p, workerCores, "ok")>>
          /\ CallsOf(p) = <<GetCall(p, workerCores, "ok")>>
          /\ RoleOf(q) = "Main"
          /\ SweepWritesOn(q) = <<>>
          /\ PollWritesOn(q) = <<SetCall(q, mainCores, "ok")>>

====
